---------------------------- MODULE Spec2Model ----------------------------
(***************************************************************************)
(* Model of blockchain/tasks.go of snet-daemon: the three goroutines that  *)
(* StartLoop launches (processJobCompletions, processEvents,               *)
(* submitOldJobsForCompletion), the bolt store they share (job bucket and  *)
(* chain bucket), the job completion channel and the ledger they talk to.  *)
(*                                                                         *)
(* Byte strings are sequences of naturals; a nil byte string is <<>>.      *)
(* Sizes are scaled: an ABI word is WordLength bytes, an address           *)
(* AddressLength bytes.  Store transactions are taken to commit (bolt      *)
(* serialises writers; every Update below is one atomic step).             *)
(***************************************************************************)
EXTENDS Integers, Sequences, FiniteSets, TLC

\* ---------------------------------------------------------------- bounds
NumAddr == 2        \* distinct job addresses
MaxBlock == 2       \* blocks the ledger mines (one agent log per block)
FewBlocks == 1      \* blocks the ledger mines when all three goroutines run
QueueCap == 1       \* capacity of jobCompletionQueue
MaxExternal == 1    \* completion requests made by the external actor
MaxCrash == 1       \* crashes of the process

\* ------------------------------------------------------- sizes and values
WordLength == 2     \* an ABI word (32 bytes in the source, scaled)
AddressLength == 1  \* common.AddressLength (20 bytes in the source, scaled)
SignatureLength == 3 \* r, s, v (65 bytes in the source, scaled)

Nil == <<>>

jobPendingState == "PENDING"
jobFundedState == "FUNDED"

AddrBytes == {<<a>> : a \in 1..NumAddr}
ConsumerBytes == <<9>>
OtherConsumerBytes == <<8>>
GoodSig == <<5, 6, 1>>
BadSig == <<5, 6>>

VARIABLES
  ledger,           \* the agent contract's logs, ledger[i] is the log of block i
  jobBucket,        \* db.JobBucketName: address -> marshalled job, Nil if absent
  lastBlock,        \* db.ChainBucketName["lastBlock"], Nil if absent
  epc,              \* processEvents: position in the loop body
  currentBlockHex,  \* processEvents: the eth_blockNumber answer (hex digits)
  fromBlock,        \* processEvents: first block of the range being scanned
  applied,          \* history: blocks whose log was merged into the job bucket
  skipped,          \* history: blocks whose log was in the range of a failed query
  deleted,          \* history: addresses deleted by JobCompleted, not created since
  mergedFlagged,    \* history: addresses whose flagged record an event merge rewrote
  bootBucket,       \* history: the job bucket when StartLoop ran
  iterBucket,       \* history: the job bucket when the scan in progress began, else Nil
  queryFailed,      \* history: a log query of the scan in progress failed
  heightErr,        \* history: the latest eth_blockNumber call failed
  covered,          \* history: blocks that were in the range of a scan
  rescanned,        \* history: blocks that were in the range of more than one scan
  crashed,          \* history: the scans cut short by a crash since the last checkpoint write
  queue,            \* jobCompletionQueue (buffered channel)
  wpc,              \* processJobCompletions: position
  jobInfo,          \* processJobCompletions: the dequeued item
  txn,              \* processJobCompletions: the transaction being polled
  pendingTx,        \* ledger: submitted transactions that are still pending
  submitted,        \* history: every transaction CompleteJob submitted
  handled,          \* history: items the worker dequeued, in order
  spc,              \* submitOldJobsForCompletion: position
  snapshot,         \* submitOldJobsForCompletion: the View transaction's snapshot
  cursor,           \* submitOldJobsForCompletion: next key of bucket.ForEach
  scanSent,         \* history: requests the scanner sent, in order
  extSend,          \* external actor: requests written to the store, not yet sent
  extCount,         \* external actor: requests made so far
  mpc,              \* merge law: position
  mEvent,           \* merge law: the event being merged
  mOnce             \* merge law: the job bucket after the first merge

eventVars == <<covered, rescanned, heightErr, ledger, jobBucket, lastBlock, epc, currentBlockHex, fromBlock,
               applied, skipped, deleted, mergedFlagged, bootBucket, iterBucket, queryFailed, crashed>>
workerVars == <<queue, wpc, jobInfo, txn, pendingTx, submitted, handled>>
scanVars == <<spc, snapshot, cursor, scanSent>>
extVars == <<extSend, extCount>>
mergeVars == <<mpc, mEvent, mOnce>>
vars == <<eventVars, workerVars, scanVars, extVars, mergeVars>>

\* ------------------------------------------------------------ conversions

\* hexutil quantity encoding of the node's answer: minimal digits, "0x0" for 0
RECURSIVE EncodeHex(_)
EncodeHex(n) ==
  IF n < 16 THEN <<n>> ELSE Append(EncodeHex(n \div 16), n % 16)

\* common.FromHex: pad an odd number of digits with a leading 0, two digits a byte
RECURSIVE Hex2Bytes(_)
Hex2Bytes(s) ==
  IF Len(s) < 2 THEN <<>>
  ELSE <<16 * s[1] + s[2]>> \o Hex2Bytes(SubSeq(s, 3, Len(s)))

FromHex(s) ==
  IF Len(s) % 2 = 1 THEN Hex2Bytes(<<0>> \o s) ELSE Hex2Bytes(s)

\* big.Int.SetBytes: big-endian unsigned
RECURSIVE SetBytes(_)
SetBytes(b) ==
  IF Len(b) = 0 THEN 0
  ELSE 256 * SetBytes(SubSeq(b, 1, Len(b) - 1)) + b[Len(b)]

\* common.BytesToAddress(b).Bytes(): keep the last AddressLength bytes,
\* left-pad with zeros when shorter
RECURSIVE LeftPad(_, _)
LeftPad(b, n) ==
  IF Len(b) >= n THEN b ELSE LeftPad(<<0>> \o b, n)

BytesToAddress(b) ==
  IF Len(b) > AddressLength
  THEN SubSeq(b, Len(b) - AddressLength + 1, Len(b))
  ELSE LeftPad(b, AddressLength)

\* db.Job: the zero value, and the JSON encoding of a job
ZeroJob ==
  [JobAddress |-> Nil, Consumer |-> Nil, JobSignature |-> Nil,
   JobState |-> "", Completed |-> FALSE]

\* json.Marshal(job): the fields in declaration order
Marshal(job) ==
  <<job.JobAddress, job.Consumer, job.JobSignature, job.JobState, job.Completed>>

\* a decoder whose field tags for Consumer and JobSignature are exchanged
UnmarshalSwapped(jobBytes, job) ==
  [JobAddress |-> IF jobBytes[1] = Nil THEN job.JobAddress ELSE jobBytes[1],
   Consumer |-> IF jobBytes[3] = Nil THEN job.Consumer ELSE jobBytes[3],
   JobSignature |-> IF jobBytes[2] = Nil THEN job.JobSignature ELSE jobBytes[2],
   JobState |-> jobBytes[4],
   Completed |-> jobBytes[5]]

\* json.Unmarshal(jobBytes, job): a null byte string leaves the field as it is
Unmarshal(jobBytes, job) ==
  [JobAddress |-> IF jobBytes[1] = Nil THEN job.JobAddress ELSE jobBytes[1],
   Consumer |-> IF jobBytes[2] = Nil THEN job.Consumer ELSE jobBytes[2],
   JobSignature |-> IF jobBytes[3] = Nil THEN job.JobSignature ELSE jobBytes[3],
   JobState |-> jobBytes[4],
   Completed |-> jobBytes[5]]

\* bucket.Get + json.Unmarshal into a fresh job
Load(bucket, key) ==
  IF bucket[key] # Nil THEN Unmarshal(bucket[key], ZeroJob) ELSE ZeroJob

\* ----------------------------------------------------------------- ledger

\* Data of a log: the ABI words of the event's arguments
Word(b) == LeftPad(b, WordLength)

Events ==
  {[kind |-> "JobCreated", Data |-> Word(a) \o Word(ConsumerBytes)] : a \in AddrBytes}
  \cup {[kind |-> "JobFunded", Data |-> Word(a)] : a \in AddrBytes}
  \cup {[kind |-> "JobCompleted", Data |-> Word(a)] : a \in AddrBytes}

\* the job address a log is about
LogAddress(l) == BytesToAddress(SubSeq(l.Data, 1, WordLength))

\* ethClient.FilterLogs(FromBlock, ToBlock, Topics: kind): block numbers of the
\* matching logs, in ledger order
MatchingBlocks(kind, from, to) ==
  {i \in from..to : i \in DOMAIN ledger /\ ledger[i].kind = kind}

RECURSIVE SortedSeq(_)
SortedSeq(S) ==
  IF S = {} THEN <<>>
  ELSE LET m == CHOOSE x \in S : \A y \in S : x <= y
       IN <<m>> \o SortedSeq(S \ {m})

FilterLogs(kind, from, to) ==
  LET bs == SortedSeq(MatchingBlocks(kind, from, to))
  IN [i \in 1..Len(bs) |-> ledger[bs[i]]]

\* a new block is mined; the logs of mined blocks never change
MineUpTo(n) ==
  /\ Len(ledger) < n
  /\ \E e \in Events : ledger' = Append(ledger, e)
  /\ UNCHANGED <<covered, rescanned, heightErr, jobBucket, lastBlock, epc, currentBlockHex, fromBlock,
                 applied, skipped, deleted, mergedFlagged, bootBucket, iterBucket, queryFailed, crashed>>
  /\ UNCHANGED <<workerVars, scanVars, extVars, mergeVars>>

Mine == MineUpTo(MaxBlock)

MineFew == MineUpTo(FewBlocks)

\* ------------------------------------------------------- processEvents

currentBlockBytes == FromHex(currentBlockHex)
currentBlock == SetBytes(currentBlockBytes)

\* lines 117-140: the JobCreated merge of one log
PutCreated(bucket, l) ==
  LET jobAddressBytes == BytesToAddress(SubSeq(l.Data, 1, WordLength))
      jobConsumerBytes == BytesToAddress(SubSeq(l.Data, WordLength + 1, 2 * WordLength))
      job == Load(bucket, jobAddressBytes)
      job2 == [job EXCEPT !.JobAddress = jobAddressBytes,
                          !.Consumer = jobConsumerBytes,
                          !.JobState = jobPendingState]
  IN [bucket EXCEPT ![jobAddressBytes] = Marshal(job2)]

\* a JobFunded write that does not read the stored record first
PutFundedFresh(bucket, l) ==
  LET jobAddressBytes == BytesToAddress(SubSeq(l.Data, 1, WordLength))
      job2 == [ZeroJob EXCEPT !.JobAddress = jobAddressBytes,
                              !.JobState = jobFundedState]
  IN [bucket EXCEPT ![jobAddressBytes] = Marshal(job2)]

\* lines 156-177: the JobFunded merge of one log
PutFunded(bucket, l) ==
  LET jobAddressBytes == BytesToAddress(SubSeq(l.Data, 1, WordLength))
      job == Load(bucket, jobAddressBytes)
      job2 == [job EXCEPT !.JobAddress = jobAddressBytes,
                          !.JobState = jobFundedState]
  IN [bucket EXCEPT ![jobAddressBytes] = Marshal(job2)]

\* a JobCompleted deletion that only removes a funded job
DeleteCompletedIfFunded(bucket, l) ==
  LET jobAddressBytes == BytesToAddress(SubSeq(l.Data, 1, WordLength))
  IN IF Load(bucket, jobAddressBytes).JobState = jobFundedState
     THEN [bucket EXCEPT ![jobAddressBytes] = Nil]
     ELSE bucket

\* lines 193-203: the JobCompleted deletion of one log
DeleteCompleted(bucket, l) ==
  LET jobAddressBytes == BytesToAddress(SubSeq(l.Data, 1, WordLength))
  IN [bucket EXCEPT ![jobAddressBytes] = Nil]

\* one boltDB.Update over the logs of one kind, in the order returned
RECURSIVE UpdateCreated(_, _)
UpdateCreated(bucket, logs) ==
  IF logs = <<>> THEN bucket
  ELSE UpdateCreated(PutCreated(bucket, Head(logs)), Tail(logs))

RECURSIVE UpdateFunded(_, _)
UpdateFunded(bucket, logs) ==
  IF logs = <<>> THEN bucket
  ELSE UpdateFunded(PutFunded(bucket, Head(logs)), Tail(logs))

RECURSIVE UpdateCompleted(_, _)
UpdateCompleted(bucket, logs) ==
  IF logs = <<>> THEN bucket
  ELSE UpdateCompleted(DeleteCompleted(bucket, Head(logs)), Tail(logs))

LogAddresses(logs) == {LogAddress(logs[i]) : i \in 1..Len(logs)}

\* the addresses of keys whose record has the completion flag set
Flagged(bucket, keys) ==
  {k \in keys : bucket[k] # Nil /\ Unmarshal(bucket[k], ZeroJob).Completed}

\* a failed eth_blockNumber call that is logged without ending the iteration:
\* the body goes on with the empty answer
ReadHeightFailNoContinue ==
  /\ epc = "sleep"
  /\ heightErr' = TRUE
  /\ currentBlockHex' = <<>>
  /\ epc' = "view"
  /\ UNCHANGED <<covered, rescanned, ledger, jobBucket, lastBlock, fromBlock, applied, skipped,
                 deleted, mergedFlagged, bootBucket, iterBucket, queryFailed, crashed>>
  /\ UNCHANGED <<workerVars, scanVars, extVars, mergeVars>>

\* lines 84-88: eth_blockNumber fails; the iteration ends
ReadHeightFail ==
  /\ epc = "sleep"
  /\ heightErr' = TRUE
  /\ UNCHANGED <<covered, rescanned, ledger, jobBucket, lastBlock, epc, currentBlockHex, fromBlock, applied, skipped,
                 deleted, mergedFlagged, bootBucket, iterBucket, queryFailed, crashed>>
  /\ UNCHANGED <<workerVars, scanVars, extVars, mergeVars>>

\* lines 84-91: eth_blockNumber answers; the node may lag, stall or go back
ReadHeight ==
  /\ epc = "sleep"
  /\ \E h \in 0..Len(ledger) : currentBlockHex' = EncodeHex(h)
  /\ epc' = "view"
  /\ heightErr' = FALSE
  /\ UNCHANGED <<covered, rescanned, ledger, jobBucket, lastBlock, fromBlock, applied, skipped, deleted, mergedFlagged, bootBucket, iterBucket, queryFailed, crashed>>
  /\ UNCHANGED <<workerVars, scanVars, extVars, mergeVars>>

\* the loop body without the fromBlock <= currentBlock test
ReadLastBlockNoCompare ==
  /\ epc = "view"
  /\ LET last == IF lastBlock # Nil THEN SetBytes(lastBlock) ELSE currentBlock - 1
     IN fromBlock' = last + 1
  /\ epc' = "created"
  /\ UNCHANGED <<heightErr, ledger, jobBucket, lastBlock, currentBlockHex, applied, skipped, deleted,
                 mergedFlagged, bootBucket, crashed>>
  /\ covered' = IF epc' = "created" THEN covered \cup (fromBlock'..currentBlock) ELSE covered
  /\ rescanned' = IF epc' = "created"
                  THEN rescanned \cup (covered \cap (fromBlock'..currentBlock))
                  ELSE rescanned
  /\ iterBucket' = IF epc' = "created" THEN jobBucket ELSE Nil
  /\ queryFailed' = FALSE
  /\ UNCHANGED <<workerVars, scanVars, extVars, mergeVars>>

\* a first run that takes the height it read as the checkpoint already reached
ReadLastBlockFromNow ==
  /\ epc = "view"
  /\ LET last == IF lastBlock # Nil THEN SetBytes(lastBlock) ELSE currentBlock
         from == last + 1
     IN /\ fromBlock' = from
        /\ epc' = IF from <= currentBlock THEN "created" ELSE "sleep"
  /\ UNCHANGED <<heightErr, ledger, jobBucket, lastBlock, currentBlockHex, applied, skipped, deleted, mergedFlagged, bootBucket, crashed>>
  /\ covered' = IF epc' = "created" THEN covered \cup (fromBlock'..currentBlock) ELSE covered
  /\ rescanned' = IF epc' = "created"
                  THEN rescanned \cup (covered \cap (fromBlock'..currentBlock))
                  ELSE rescanned
  /\ iterBucket' = IF epc' = "created" THEN jobBucket ELSE Nil
  /\ queryFailed' = FALSE
  /\ UNCHANGED <<workerVars, scanVars, extVars, mergeVars>>

\* a comparison of the checkpoint itself, not of fromBlock, with the height
ReadLastBlockOffByOne ==
  /\ epc = "view"
  /\ LET last == IF lastBlock # Nil THEN SetBytes(lastBlock) ELSE currentBlock - 1
         from == last + 1
     IN /\ fromBlock' = from
        /\ epc' = IF last <= currentBlock THEN "created" ELSE "sleep"
  /\ UNCHANGED <<heightErr, ledger, jobBucket, lastBlock, currentBlockHex, applied, skipped, deleted, mergedFlagged, bootBucket, crashed>>
  /\ covered' = IF epc' = "created" THEN covered \cup (fromBlock'..currentBlock) ELSE covered
  /\ rescanned' = IF epc' = "created"
                  THEN rescanned \cup (covered \cap (fromBlock'..currentBlock))
                  ELSE rescanned
  /\ iterBucket' = IF epc' = "created" THEN jobBucket ELSE Nil
  /\ queryFailed' = FALSE
  /\ UNCHANGED <<workerVars, scanVars, extVars, mergeVars>>

\* lines 93-108: read the checkpoint, compute fromBlock, compare
ReadLastBlock ==
  /\ epc = "view"
  /\ LET last == IF lastBlock # Nil THEN SetBytes(lastBlock) ELSE currentBlock - 1
         from == last + 1
     IN /\ fromBlock' = from
        /\ epc' = IF from <= currentBlock THEN "created" ELSE "sleep"
  /\ UNCHANGED <<heightErr, ledger, jobBucket, lastBlock, currentBlockHex, applied, skipped, deleted, mergedFlagged, bootBucket, crashed>>
  /\ covered' = IF epc' = "created" THEN covered \cup (fromBlock'..currentBlock) ELSE covered
  /\ rescanned' = IF epc' = "created"
                  THEN rescanned \cup (covered \cap (fromBlock'..currentBlock))
                  ELSE rescanned
  /\ iterBucket' = IF epc' = "created" THEN jobBucket ELSE Nil
  /\ queryFailed' = FALSE
  /\ UNCHANGED <<workerVars, scanVars, extVars, mergeVars>>

\* a JobCreated step that persists the checkpoint along with its merges
CreatedLogsThenPut ==
  /\ epc = "created"
  /\ LET logs == FilterLogs("JobCreated", fromBlock, currentBlock)
     IN /\ jobBucket' = UpdateCreated(jobBucket, logs)
        /\ deleted' = deleted \ LogAddresses(logs)
        /\ mergedFlagged' = mergedFlagged \cup Flagged(jobBucket, LogAddresses(logs))
  /\ applied' = applied \cup MatchingBlocks("JobCreated", fromBlock, currentBlock)
  /\ lastBlock' = currentBlockBytes
  /\ epc' = "funded"
  /\ UNCHANGED <<covered, rescanned, heightErr, ledger, currentBlockHex, fromBlock, skipped, bootBucket, iterBucket, queryFailed, crashed>>
  /\ UNCHANGED <<workerVars, scanVars, extVars, mergeVars>>

\* lines 109-143: the JobCreated query succeeds; its logs are merged in one Update
CreatedLogs ==
  /\ epc = "created"
  /\ LET logs == FilterLogs("JobCreated", fromBlock, currentBlock)
     IN /\ jobBucket' = UpdateCreated(jobBucket, logs)
        /\ deleted' = deleted \ LogAddresses(logs)
        /\ mergedFlagged' = mergedFlagged \cup Flagged(jobBucket, LogAddresses(logs))
  /\ applied' = applied \cup MatchingBlocks("JobCreated", fromBlock, currentBlock)
  /\ epc' = "funded"
  /\ UNCHANGED <<covered, rescanned, heightErr, ledger, lastBlock, currentBlockHex, fromBlock, skipped, bootBucket, iterBucket, queryFailed, crashed>>
  /\ UNCHANGED <<workerVars, scanVars, extVars, mergeVars>>

\* lines 144-146: the JobCreated query fails
CreatedLogsFail ==
  /\ epc = "created"
  /\ skipped' = skipped \cup MatchingBlocks("JobCreated", fromBlock, currentBlock)
  /\ epc' = "funded"
  /\ UNCHANGED <<covered, rescanned, heightErr, ledger, jobBucket, lastBlock, currentBlockHex, fromBlock, applied, deleted,
                 mergedFlagged, bootBucket, iterBucket, crashed>>
  /\ queryFailed' = TRUE
  /\ UNCHANGED <<workerVars, scanVars, extVars, mergeVars>>

\* lines 148-180: the JobFunded query succeeds
FundedLogs ==
  /\ epc = "funded"
  /\ LET logs == FilterLogs("JobFunded", fromBlock, currentBlock)
     IN /\ jobBucket' = UpdateFunded(jobBucket, logs)
        /\ mergedFlagged' = mergedFlagged \cup Flagged(jobBucket, LogAddresses(logs))
  /\ applied' = applied \cup MatchingBlocks("JobFunded", fromBlock, currentBlock)
  /\ epc' = "completed"
  /\ UNCHANGED <<covered, rescanned, heightErr, ledger, lastBlock, currentBlockHex, fromBlock, skipped, deleted, bootBucket, iterBucket, queryFailed, crashed>>
  /\ UNCHANGED <<workerVars, scanVars, extVars, mergeVars>>

\* lines 181-183: the JobFunded query fails
FundedLogsFail ==
  /\ epc = "funded"
  /\ skipped' = skipped \cup MatchingBlocks("JobFunded", fromBlock, currentBlock)
  /\ epc' = "completed"
  /\ UNCHANGED <<covered, rescanned, heightErr, ledger, jobBucket, lastBlock, currentBlockHex, fromBlock, applied, deleted,
                 mergedFlagged, bootBucket, iterBucket, crashed>>
  /\ queryFailed' = TRUE
  /\ UNCHANGED <<workerVars, scanVars, extVars, mergeVars>>

\* lines 185-206: the JobCompleted query succeeds
CompletedLogs ==
  /\ epc = "completed"
  /\ LET logs == FilterLogs("JobCompleted", fromBlock, currentBlock)
     IN /\ jobBucket' = UpdateCompleted(jobBucket, logs)
        /\ deleted' = deleted \cup LogAddresses(logs)
  /\ applied' = applied \cup MatchingBlocks("JobCompleted", fromBlock, currentBlock)
  /\ epc' = "put"
  /\ UNCHANGED <<covered, rescanned, heightErr, ledger, lastBlock, currentBlockHex, fromBlock, skipped,
                 mergedFlagged, bootBucket, iterBucket, queryFailed, crashed>>
  /\ UNCHANGED <<workerVars, scanVars, extVars, mergeVars>>

\* lines 207-209: the JobCompleted query fails
CompletedLogsFail ==
  /\ epc = "completed"
  /\ skipped' = skipped \cup MatchingBlocks("JobCompleted", fromBlock, currentBlock)
  /\ epc' = "put"
  /\ UNCHANGED <<covered, rescanned, heightErr, ledger, jobBucket, lastBlock, currentBlockHex, fromBlock, applied, deleted,
                 mergedFlagged, bootBucket, iterBucket, crashed>>
  /\ queryFailed' = TRUE
  /\ UNCHANGED <<workerVars, scanVars, extVars, mergeVars>>

\* the crash records once a checkpoint write has ended the scan after them
Closed(cs) == [i \in DOMAIN cs |-> [cs[i] EXCEPT !.open = FALSE]]

\* a checkpoint write that is held back when a query of the iteration failed
PutLastBlockIfClean ==
  /\ epc = "put"
  /\ lastBlock' = IF skipped \cap (fromBlock..currentBlock) = {}
                  THEN currentBlockBytes ELSE lastBlock
  /\ epc' = "sleep"
  /\ UNCHANGED <<covered, rescanned, heightErr, ledger, jobBucket, currentBlockHex, fromBlock, applied, skipped, deleted,
                 mergedFlagged, bootBucket>>
  /\ crashed' = Closed(crashed)
  /\ iterBucket' = Nil
  /\ queryFailed' = FALSE
  /\ UNCHANGED <<workerVars, scanVars, extVars, mergeVars>>

\* a checkpoint write that stores the first block of the range, not the last
PutLastBlockFrom ==
  /\ epc = "put"
  /\ lastBlock' = FromHex(EncodeHex(fromBlock))
  /\ epc' = "sleep"
  /\ UNCHANGED <<covered, rescanned, heightErr, ledger, jobBucket, currentBlockHex, fromBlock, applied, skipped, deleted, mergedFlagged, bootBucket>>
  /\ crashed' = Closed(crashed)
  /\ iterBucket' = Nil
  /\ queryFailed' = FALSE
  /\ UNCHANGED <<workerVars, scanVars, extVars, mergeVars>>

\* lines 211-217: persist the checkpoint
PutLastBlock ==
  /\ epc = "put"
  /\ lastBlock' = currentBlockBytes
  /\ epc' = "sleep"
  /\ UNCHANGED <<covered, rescanned, heightErr, ledger, jobBucket, currentBlockHex, fromBlock, applied, skipped, deleted, mergedFlagged, bootBucket>>
  /\ crashed' = Closed(crashed)
  /\ iterBucket' = Nil
  /\ queryFailed' = FALSE
  /\ UNCHANGED <<workerVars, scanVars, extVars, mergeVars>>

processEvents ==
  \/ ReadHeightFail
  \/ ReadHeight
  \/ ReadLastBlock
  \/ CreatedLogs
  \/ CreatedLogsFail
  \/ FundedLogs
  \/ FundedLogsFail
  \/ CompletedLogs
  \/ CompletedLogsFail
  \/ PutLastBlock

\* lines 109-209 run without interruption, the three queries succeeding
Iteration(bucket, from, to) ==
  UpdateCompleted(
    UpdateFunded(
      UpdateCreated(bucket, FilterLogs("JobCreated", from, to)),
      FilterLogs("JobFunded", from, to)),
    FilterLogs("JobCompleted", from, to))

\* ------------------------------------------------ processJobCompletions

\* parseSignature: r, s, v of a signature of the right length, an error otherwise
parseSignature(jobSignatureBytes) ==
  IF Len(jobSignatureBytes) # SignatureLength
  THEN [v |-> 0, r |-> <<0>>, s |-> <<0>>, err |-> TRUE]
  ELSE [v |-> jobSignatureBytes[3], r |-> <<jobSignatureBytes[1]>>,
        s |-> <<jobSignatureBytes[2]>>, err |-> FALSE]

\* line 33: receive the next item of the channel
Receive ==
  /\ wpc = "recv"
  /\ queue # <<>>
  /\ jobInfo' = Head(queue)
  /\ queue' = Tail(queue)
  /\ handled' = Append(handled, Head(queue))
  /\ wpc' = "submit"
  /\ UNCHANGED <<txn, pendingTx, submitted>>
  /\ UNCHANGED <<eventVars, scanVars, extVars, mergeVars>>

\* the transaction lines 37-49 build for the dequeued item
BuildTransaction(info, id) ==
  LET sig == parseSignature(info.jobSignatureBytes)
  IN [id |-> id,
      job |-> BytesToAddress(info.jobAddressBytes),
      v |-> sig.v, r |-> sig.r, s |-> sig.s,
      parseErr |-> sig.err]

\* lines 37-49, 51-52: parse the signature, submit; CompleteJob succeeds
CompleteJob ==
  /\ wpc = "submit"
  /\ LET tx == BuildTransaction(jobInfo, Len(submitted) + 1)
     IN /\ submitted' = Append(submitted, tx)
        /\ pendingTx' = pendingTx \cup {tx.id}
        /\ txn' = tx.id
  /\ wpc' = "poll"
  /\ UNCHANGED <<queue, jobInfo, handled>>
  /\ UNCHANGED <<eventVars, scanVars, extVars, mergeVars>>

\* a failed submission that puts the request back on the channel
CompleteJobFailRequeue ==
  /\ wpc = "submit"
  /\ Len(queue) < QueueCap
  /\ queue' = Append(queue, jobInfo)
  /\ wpc' = "recv"
  /\ UNCHANGED <<jobInfo, txn, pendingTx, submitted, handled>>
  /\ UNCHANGED <<eventVars, scanVars, extVars, mergeVars>>

\* lines 37-50: parse the signature, submit; CompleteJob fails
CompleteJobFail ==
  /\ wpc = "submit"
  /\ wpc' = "recv"
  /\ UNCHANGED <<queue, jobInfo, txn, pendingTx, submitted, handled>>
  /\ UNCHANGED <<eventVars, scanVars, extVars, mergeVars>>

\* the isPending that ethClient.TransactionByHash returns: the zero value
\* (false) with an error
TransactionByHash(hash, rpcErr) ==
  IF rpcErr THEN FALSE ELSE hash \in pendingTx

\* a poll that deletes the job's record once its transaction is confirmed
PollThenDelete ==
  /\ wpc = "poll"
  /\ LET isPending == TransactionByHash(txn, FALSE)
     IN /\ wpc' = IF ~isPending THEN "recv" ELSE "poll"
        /\ jobBucket' = IF ~isPending
                         THEN [jobBucket EXCEPT ![BytesToAddress(jobInfo.jobAddressBytes)] = Nil]
                         ELSE jobBucket
  /\ UNCHANGED <<covered, rescanned, queue, jobInfo, txn, pendingTx, submitted, handled>>
  /\ UNCHANGED <<heightErr, ledger, lastBlock, epc, currentBlockHex, fromBlock, applied, skipped,
                 deleted, mergedFlagged, bootBucket, iterBucket, queryFailed, crashed>>
  /\ UNCHANGED <<scanVars, extVars, mergeVars>>

\* a poll loop whose exit test is inverted: it goes on while the transaction
\* is no longer pending
PollInverted ==
  /\ wpc = "poll"
  /\ LET isPending == TransactionByHash(txn, FALSE)
     IN wpc' = IF isPending THEN "recv" ELSE "poll"
  /\ UNCHANGED <<queue, jobInfo, txn, pendingTx, submitted, handled>>
  /\ UNCHANGED <<eventVars, scanVars, extVars, mergeVars>>

\* lines 54-59: one round of the poll; the node answers the status query
Poll ==
  /\ wpc = "poll"
  /\ LET isPending == TransactionByHash(txn, FALSE)
     IN wpc' = IF ~isPending THEN "recv" ELSE "poll"
  /\ UNCHANGED <<queue, jobInfo, txn, pendingTx, submitted, handled>>
  /\ UNCHANGED <<eventVars, scanVars, extVars, mergeVars>>

\* lines 54-59: one round of the poll; the status query fails
PollError ==
  /\ wpc = "poll"
  /\ LET isPending == TransactionByHash(txn, TRUE)
     IN wpc' = IF ~isPending THEN "recv" ELSE "poll"
  /\ UNCHANGED <<queue, jobInfo, txn, pendingTx, submitted, handled>>
  /\ UNCHANGED <<eventVars, scanVars, extVars, mergeVars>>

\* ledger: a pending transaction is mined
TxMined ==
  /\ \E t \in pendingTx : pendingTx' = pendingTx \ {t}
  /\ UNCHANGED <<queue, wpc, jobInfo, txn, submitted, handled>>
  /\ UNCHANGED <<eventVars, scanVars, extVars, mergeVars>>

processJobCompletions ==
  \/ Receive
  \/ CompleteJob
  \/ CompleteJobFail
  \/ Poll
  \/ PollError

\* ---------------------------------------------- submitOldJobsForCompletion

RECURSIVE BytesLess(_, _)
BytesLess(a, b) ==
  IF a = <<>> THEN b # <<>>
  ELSE IF b = <<>> THEN FALSE
  ELSE IF a[1] # b[1] THEN a[1] < b[1]
  ELSE BytesLess(Tail(a), Tail(b))

\* the keys bucket.ForEach visits: bolt keeps them in byte order
RECURSIVE SortedKeys(_)
SortedKeys(S) ==
  IF S = {} THEN <<>>
  ELSE LET m == CHOOSE x \in S : \A y \in S \ {x} : BytesLess(x, y)
       IN <<m>> \o SortedKeys(S \ {m})

ForEachKeys(bucket) == SortedKeys({k \in DOMAIN bucket : bucket[k] # Nil})

\* line 223: the View transaction begins; it reads one snapshot of the store
ScanBegin ==
  /\ spc = "start"
  /\ snapshot' = jobBucket
  /\ cursor' = 1
  /\ spc' = "scan"
  /\ UNCHANGED scanSent
  /\ UNCHANGED <<eventVars, workerVars, extVars, mergeVars>>

\* a scan that may pass over a flagged record without sending it
ScanSkipAny ==
  /\ spc = "scan"
  /\ cursor <= Len(ForEachKeys(snapshot))
  /\ cursor' = cursor + 1
  /\ UNCHANGED <<spc, snapshot, scanSent>>
  /\ UNCHANGED <<eventVars, workerVars, extVars, mergeVars>>

\* lines 226-235: a record that is not flagged
ScanSkip ==
  /\ spc = "scan"
  /\ cursor <= Len(ForEachKeys(snapshot))
  /\ LET job == Unmarshal(snapshot[ForEachKeys(snapshot)[cursor]], ZeroJob)
     IN ~job.Completed
  /\ cursor' = cursor + 1
  /\ UNCHANGED <<spc, snapshot, scanSent>>
  /\ UNCHANGED <<eventVars, workerVars, extVars, mergeVars>>

\* lines 226-235: a flagged record; the send blocks while the channel is full
ScanSend ==
  /\ spc = "scan"
  /\ cursor <= Len(ForEachKeys(snapshot))
  /\ Len(queue) < QueueCap
  /\ LET job == Unmarshal(snapshot[ForEachKeys(snapshot)[cursor]], ZeroJob)
         info == [jobAddressBytes |-> job.JobAddress,
                  jobSignatureBytes |-> job.JobSignature]
     IN /\ job.Completed
        /\ queue' = Append(queue, info)
        /\ scanSent' = Append(scanSent, info)
  /\ cursor' = cursor + 1
  /\ UNCHANGED <<spc, snapshot>>
  /\ UNCHANGED <<wpc, jobInfo, txn, pendingTx, submitted, handled>>
  /\ UNCHANGED <<eventVars, extVars, mergeVars>>

\* lines 236-238: ForEach is over, the View transaction ends
ScanEnd ==
  /\ spc = "scan"
  /\ cursor > Len(ForEachKeys(snapshot))
  /\ spc' = "done"
  /\ UNCHANGED <<snapshot, cursor, scanSent>>
  /\ UNCHANGED <<eventVars, workerVars, extVars, mergeVars>>

submitOldJobsForCompletion ==
  \/ ScanBegin
  \/ ScanSkip
  \/ ScanSend
  \/ ScanEnd

\* ------------------------------------------------------- external actor

\* the actor's write: one Update that reads the record of a known job and
\* overlays the completion flag and signature
PutCompletion(bucket, key, sig) ==
  LET job == Load(bucket, key)
      job2 == [job EXCEPT !.Completed = TRUE, !.JobSignature = sig]
  IN [bucket EXCEPT ![key] = Marshal(job2)]

ExtRequest ==
  /\ extCount < MaxExternal
  /\ \E key \in AddrBytes, sig \in {GoodSig, BadSig} :
       /\ jobBucket[key] # Nil
       /\ ~Load(jobBucket, key).Completed
       /\ jobBucket' = PutCompletion(jobBucket, key, sig)
       /\ extSend' = extSend \cup {[jobAddressBytes |-> key, jobSignatureBytes |-> sig]}
  /\ extCount' = extCount + 1
  /\ UNCHANGED <<covered, rescanned, heightErr, ledger, lastBlock, epc, currentBlockHex, fromBlock, applied, skipped, deleted, mergedFlagged, bootBucket, iterBucket, queryFailed, crashed>>
  /\ UNCHANGED <<workerVars, scanVars, mergeVars>>

\* the actor's send onto the channel; it blocks while the channel is full
ExtEnqueue ==
  /\ Len(queue) < QueueCap
  /\ \E info \in extSend :
       /\ queue' = Append(queue, info)
       /\ extSend' = extSend \ {info}
  /\ UNCHANGED extCount
  /\ UNCHANGED <<wpc, jobInfo, txn, pendingTx, submitted, handled>>
  /\ UNCHANGED <<eventVars, scanVars, mergeVars>>

\* ----------------------------------------------------- crash and restart

\* the process dies during a scan, before the scan's checkpoint write, and
\* is started again: the store and the ledger stay, the goroutines' locals
\* and the channel are gone, StartLoop runs on the store as the crash left it
Crash ==
  /\ epc \in {"created", "funded", "completed", "put"}
  /\ Len(crashed) < MaxCrash
  /\ crashed' = Append(crashed, [pre |-> iterBucket, last |-> lastBlock,
                                 from |-> fromBlock, to |-> currentBlock,
                                 open |-> TRUE])
  /\ epc' = "sleep"
  /\ currentBlockHex' = <<0>>
  /\ fromBlock' = 1
  /\ iterBucket' = Nil
  /\ queryFailed' = FALSE
  /\ bootBucket' = jobBucket
  /\ queue' = <<>>
  /\ wpc' = "recv"
  /\ jobInfo' = [jobAddressBytes |-> Nil, jobSignatureBytes |-> Nil]
  /\ txn' = 0
  /\ handled' = <<>>
  /\ spc' = "start"
  /\ snapshot' = [key \in AddrBytes |-> Nil]
  /\ cursor' = 1
  /\ scanSent' = <<>>
  /\ extSend' = {}
  /\ heightErr' = FALSE
  /\ UNCHANGED <<covered, rescanned, ledger, jobBucket, lastBlock, applied, skipped, deleted, mergedFlagged>>
  /\ UNCHANGED <<pendingTx, submitted, extCount, mergeVars>>

\* ------------------------------------------------------------ the program

InitRecords ==
  {Marshal([JobAddress |-> Nil, Consumer |-> ConsumerBytes, JobSignature |-> Nil,
            JobState |-> jobPendingState, Completed |-> FALSE]),
   Marshal([JobAddress |-> Nil, Consumer |-> ConsumerBytes, JobSignature |-> GoodSig,
            JobState |-> jobFundedState, Completed |-> TRUE])}

\* the record r stored under key: every writer sets JobAddress to the key
Keyed(r, key) == [r EXCEPT ![1] = key]

\* the job buckets a previous run can have left behind
InitBuckets ==
  {[key \in AddrBytes |-> IF f[key] = Nil THEN Nil ELSE Keyed(f[key], key)] :
     f \in [AddrBytes -> InitRecords \cup {Nil}]}

\* a first run (no checkpoint, no records), or a restart on the store and
\* checkpoint of a previous run; blocks are numbered from that checkpoint
InitEventsOn(buckets) ==
  /\ ledger = <<>>
  /\ \/ /\ lastBlock = Nil
        /\ jobBucket = [key \in AddrBytes |-> Nil]
     \/ /\ lastBlock = FromHex(EncodeHex(0))
        /\ jobBucket \in buckets
  /\ bootBucket = jobBucket
  /\ epc = "sleep"
  /\ currentBlockHex = <<0>>
  /\ fromBlock = 1
  /\ applied = {}
  /\ skipped = {}
  /\ deleted = {}
  /\ mergedFlagged = {}
  /\ iterBucket = Nil
  /\ queryFailed = FALSE
  /\ covered = {}
  /\ rescanned = {}
  /\ heightErr = FALSE
  /\ crashed = Nil

InitWorker ==
  /\ queue = <<>>
  /\ wpc = "recv"
  /\ jobInfo = [jobAddressBytes |-> Nil, jobSignatureBytes |-> Nil]
  /\ txn = 0
  /\ pendingTx = {}
  /\ submitted = <<>>
  /\ handled = <<>>

InitScan ==
  /\ spc = "start"
  /\ snapshot = [key \in AddrBytes |-> Nil]
  /\ cursor = 1
  /\ scanSent = <<>>

InitExt ==
  /\ extSend = {}
  /\ extCount = 0

MergeOff ==
  /\ mpc = "off"
  /\ mEvent = [kind |-> "none", Data |-> Nil]
  /\ mOnce = [key \in AddrBytes |-> Nil]

\* StartLoop: the three goroutines start on the store a previous run left
Init ==
  /\ InitEventsOn(InitBuckets)
  /\ InitWorker
  /\ InitScan
  /\ InitExt
  /\ MergeOff

\* the whole program: the three goroutines, the ledger and the external actor
Next ==
  \/ processEvents
  \/ processJobCompletions
  \/ submitOldJobsForCompletion
  \/ MineFew
  \/ TxMined
  \/ ExtRequest
  \/ ExtEnqueue

Spec == Init /\ [][Next]_vars

\* ----------------------------------------------------------- the merge law

\* the merge of one JobCreated or JobFunded log, as its Update applies it
MergeEvent(bucket, e) ==
  IF e.kind = "JobCreated" THEN UpdateCreated(bucket, <<e>>)
  ELSE UpdateFunded(bucket, <<e>>)

MergeFirst ==
  /\ mpc = "start"
  /\ jobBucket' = MergeEvent(jobBucket, mEvent)
  /\ mOnce' = jobBucket'
  /\ mpc' = "once"
  /\ UNCHANGED <<covered, rescanned, heightErr, ledger, lastBlock, epc, currentBlockHex, fromBlock, applied, skipped,
                 deleted, mergedFlagged, bootBucket, iterBucket, queryFailed, crashed, mEvent>>
  /\ UNCHANGED <<workerVars, scanVars, extVars>>

MergeSecond ==
  /\ mpc = "once"
  /\ jobBucket' = MergeEvent(jobBucket, mEvent)
  /\ mpc' = "twice"
  /\ UNCHANGED <<covered, rescanned, heightErr, ledger, lastBlock, epc, currentBlockHex, fromBlock, applied, skipped,
                 deleted, mergedFlagged, bootBucket, iterBucket, queryFailed, crashed, mEvent, mOnce>>
  /\ UNCHANGED <<workerVars, scanVars, extVars>>

\* the records the program's writers can produce
MergeRecords ==
  {Marshal([JobAddress |-> Nil, Consumer |-> c, JobSignature |-> f[2],
            JobState |-> st, Completed |-> f[1]]) :
     c \in {Nil, ConsumerBytes, OtherConsumerBytes},
     st \in {jobPendingState, jobFundedState},
     f \in {<<FALSE, Nil>>, <<TRUE, GoodSig>>}}

MergeBuckets ==
  {[key \in AddrBytes |-> IF f[key] = Nil THEN Nil ELSE Keyed(f[key], key)] :
     f \in [AddrBytes -> MergeRecords \cup {Nil}]}

InitMerge ==
  /\ jobBucket \in MergeBuckets
  /\ bootBucket = jobBucket
  /\ mEvent \in {e \in Events : e.kind \in {"JobCreated", "JobFunded"}}
  /\ mpc = "start"
  /\ mOnce = [key \in AddrBytes |-> Nil]
  /\ ledger = <<>>
  /\ lastBlock = Nil
  /\ epc = "off"
  /\ currentBlockHex = <<0>>
  /\ fromBlock = 1
  /\ applied = {}
  /\ skipped = {}
  /\ deleted = {}
  /\ mergedFlagged = {}
  /\ iterBucket = Nil
  /\ queryFailed = FALSE
  /\ covered = {}
  /\ rescanned = {}
  /\ heightErr = FALSE
  /\ crashed = Nil
  /\ InitWorker
  /\ InitScan
  /\ InitExt

NextMerge ==
  \/ MergeFirst
  \/ MergeSecond

SpecMerge == InitMerge /\ [][NextMerge]_vars

\* the event loop against a longer ledger, started on a first run or on the
\* unflagged records of a previous run
PendingBuckets ==
  {b \in InitBuckets : \A key \in AddrBytes : b[key] # Nil => ~b[key][5]}

InitEventLoop ==
  /\ InitEventsOn(PendingBuckets)
  /\ InitWorker
  /\ InitScan
  /\ InitExt
  /\ MergeOff

NextEvents ==
  \/ processEvents
  \/ Mine

SpecEvents == InitEventLoop /\ [][NextEvents]_vars

\* the store's two writers: the event loop and the external request handler
NextStore ==
  \/ processEvents
  \/ MineFew
  \/ ExtRequest
  \/ ExtEnqueue

SpecStore == InitEventLoop /\ [][NextStore]_vars

\* the event loop of a process that can crash and be started again
NextRestart ==
  \/ processEvents
  \/ Mine
  \/ Crash

SpecRestart == Init /\ [][NextRestart]_vars

\* the submission worker, its two producers and the ledger's mempool
NextCompletions ==
  \/ processJobCompletions
  \/ submitOldJobsForCompletion
  \/ TxMined
  \/ ExtRequest
  \/ ExtEnqueue

SpecCompletions == Init /\ [][NextCompletions]_vars

\* the same under the scheduler's fairness: a goroutine that can take a step
\* takes one (a status query that answers is not starved by failing ones),
\* and the ledger mines every pending transaction
FairCompletions ==
  /\ SpecCompletions
  /\ WF_vars(Receive)
  /\ WF_vars(CompleteJob \/ CompleteJobFail)
  /\ WF_vars(Poll)
  /\ WF_vars(submitOldJobsForCompletion)
  /\ WF_vars(TxMined)

\* the three goroutines of StartLoop and the ledger
NextLoops ==
  \/ processEvents
  \/ processJobCompletions
  \/ submitOldJobsForCompletion
  \/ MineFew
  \/ TxMined

SpecLoops == Init /\ [][NextLoops]_vars

\* ================================================================= claims

\* C1: the persisted checkpoint never decreases (and is never removed), for
\* any sequence of height readings and query outcomes.
CheckpointMonotone ==
  [][lastBlock # Nil =>
       /\ lastBlock' # Nil
       /\ SetBytes(lastBlock') >= SetBytes(lastBlock)]_vars

\* a reading below a checkpoint that earlier iterations, one with a failed
\* query, had advanced
CheckpointMonotoneWitness ==
  /\ epc = "sleep"
  /\ lastBlock # Nil
  /\ SetBytes(lastBlock) >= 2
  /\ currentBlock < SetBytes(lastBlock)
  /\ fromBlock > currentBlock
  /\ skipped # {}

\* C2: at most one transaction submitted by processJobCompletions is pending
\* on the ledger at any time.
SingleFlight == Cardinality(pendingTx) <= 1

\* the requests sent by the scanner for the flagged records of a bucket:
\* one per flagged record, carrying its address and signature, none other
RequestOf(bucket, key) ==
  LET job == Unmarshal(bucket[key], ZeroJob)
  IN [jobAddressBytes |-> job.JobAddress, jobSignatureBytes |-> job.JobSignature]

SentOnlyFlagged(bucket) ==
  \A i \in 1..Len(scanSent) :
    /\ \E key \in Flagged(bucket, AddrBytes) : scanSent[i] = RequestOf(bucket, key)
    /\ \A j \in 1..Len(scanSent) : scanSent[j] = scanSent[i] => j = i

SentEveryFlagged(bucket) ==
  \A key \in Flagged(bucket, AddrBytes) :
    \E i \in 1..Len(scanSent) : scanSent[i] = RequestOf(bucket, key)

\* C3 as stated: the scanner sends exactly one request for each record that
\* was flagged in the store when the process started, and no other.
RecoversStartStore ==
  /\ SentOnlyFlagged(bootBucket)
  /\ spc = "done" => SentEveryFlagged(bootBucket)

\* C3 amended: the scanner sends exactly one request for each record that is
\* flagged in the store when its read transaction begins, and no other.
RecoversSnapshot ==
  /\ spc = "start" => scanSent = <<>>
  /\ spc # "start" => SentOnlyFlagged(snapshot)
  /\ spc = "done" => SentEveryFlagged(snapshot)

\* the event loop deleted a flagged record before the scan began; the scan
\* has finished and sent the remaining one
RecoversSnapshotWitness ==
  /\ spc = "done"
  /\ Len(scanSent) >= 1
  /\ \E key \in Flagged(bootBucket, AddrBytes) : snapshot[key] = Nil

\* C4: right after the JobCompleted Update, no address of a processed
\* JobCompleted log has a record.
CompletedDeletes ==
  [][(epc = "completed" /\ epc' = "put") =>
       \A i \in MatchingBlocks("JobCompleted", fromBlock, currentBlock) \cap applied' :
         jobBucket'[LogAddress(ledger[i])] = Nil]_vars

\* a JobCompleted log was processed for an address that had a record before
\* the iteration and a JobFunded or JobCreated log at a higher block of the
\* same range
CompletedDeletesWitness ==
  /\ epc = "put"
  /\ \E i, j \in (fromBlock..currentBlock) \cap applied :
       /\ ledger[i].kind = "JobCompleted"
       /\ ledger[j].kind \in {"JobCreated", "JobFunded"}
       /\ i < j
       /\ LogAddress(ledger[i]) = LogAddress(ledger[j])
       /\ bootBucket[LogAddress(ledger[i])] # Nil
       /\ jobBucket[LogAddress(ledger[i])] = Nil

\* C5: an address deleted by a JobCompleted log has no record until a
\* JobCreated log for it is processed.
DeletionIsTerminal ==
  \A key \in deleted : jobBucket[key] = Nil

\* C6: a record whose state is Funded is never Pending in a later state.
StateNeverRegresses ==
  [][\A key \in AddrBytes :
       (/\ jobBucket[key] # Nil
        /\ Unmarshal(jobBucket[key], ZeroJob).JobState = jobFundedState
        /\ jobBucket'[key] # Nil)
       => Unmarshal(jobBucket'[key], ZeroJob).JobState # jobPendingState]_vars

\* C7: merging the same JobCreated or JobFunded log a second time leaves the
\* job bucket as the first merge left it.
MergeIdempotent ==
  mpc = "twice" => jobBucket = mOnce

\* a JobCreated log merged twice into a bucket that had a record for its
\* address, which the merge changed
MergeIdempotentWitness ==
  /\ mpc = "twice"
  /\ mEvent.kind = "JobCreated"
  /\ bootBucket[LogAddress(mEvent)] # Nil
  /\ jobBucket # bootBucket

\* C8: the JobFunded Update changes only the state of an existing record, the
\* JobCreated Update leaves its flag and signature alone, and no step that
\* keeps a record clears its completion flag.
MergePreservesFields ==
  [][\A key \in AddrBytes :
       (jobBucket[key] # Nil /\ jobBucket'[key] # Nil) =>
         LET old == jobBucket[key]
             new == jobBucket'[key]
         IN /\ (epc = "funded" /\ epc' = "completed") =>
                 (new[1] = old[1] /\ new[2] = old[2] /\ new[3] = old[3] /\ new[5] = old[5])
            /\ (epc = "created" /\ epc' = "funded") =>
                 (new[3] = old[3] /\ new[5] = old[5])
            /\ old[5] => (new[5] /\ new[3] = old[3])]_vars

\* a record the external actor flagged was then rewritten by an event merge
\* and is now Funded, with flag, signature and consumer in place
MergePreservesFieldsWitness ==
  \E key \in mergedFlagged :
    /\ jobBucket[key] # Nil
    /\ jobBucket[key][5]
    /\ jobBucket[key][3] = BadSig
    /\ jobBucket[key][2] = ConsumerBytes
    /\ jobBucket[key][4] = jobFundedState

\* C9: an iteration that scanned ends with the checkpoint at the height it
\* read and with every log of its range merged or, if its kind's query
\* failed, skipped; a skipped log is never merged.
AdvancesPastFailures ==
  /\ (epc = "sleep" /\ fromBlock <= currentBlock) =>
       /\ lastBlock = currentBlockBytes
       /\ SetBytes(lastBlock) = currentBlock
       /\ \A i \in (fromBlock..currentBlock) \cap DOMAIN ledger :
            i \in applied \cup skipped
  /\ skipped \cap applied = {}

\* a log was skipped by a failed query and a later iteration merged a log of
\* the same kind from a higher block
AdvancesPastFailuresWitness ==
  /\ epc = "sleep"
  /\ \E i \in skipped, j \in applied :
       /\ i < j
       /\ ledger[i].kind = ledger[j].kind
       /\ SetBytes(lastBlock) >= j

\* C10: no transaction is submitted for a request whose signature failed to
\* parse.
DecodeFailureDropsItem ==
  \A i \in 1..Len(submitted) : ~submitted[i].parseErr

OpenCrashes == {i \in 1..Len(crashed) : crashed[i].open}

FirstOpenCrash == crashed[CHOOSE i \in OpenCrashes : \A j \in OpenCrashes : i <= j]

FifoOneAtATime ==
  [][/\ \/ queue' = queue
        \/ (queue' # <<>> /\ queue = SubSeq(queue', 1, Len(queue') - 1) /\ handled' = handled)
        \/ (queue # <<>> /\ queue' = Tail(queue) /\ wpc = "recv"
            /\ jobInfo' = Head(queue) /\ handled' = Append(handled, Head(queue)))
     /\ (wpc = "recv" /\ wpc' = "submit") => pendingTx = {}]_vars

\* C14: an iteration whose height read fails ends there (no log query is
\* issued), the failing step changes neither the checkpoint nor a job record
\* nor the loop's range, and the next reading starts from that checkpoint.
HeightFailureNoEffect ==
  [][/\ heightErr' => epc' = "sleep"
     /\ (epc = "sleep" /\ heightErr' /\ epc' = "sleep") =>
          (lastBlock' = lastBlock /\ jobBucket' = jobBucket /\ fromBlock' = fromBlock)
     /\ (heightErr /\ ~heightErr') =>
          (epc' \in {"view", "sleep"} /\ lastBlock' = lastBlock /\ jobBucket' = jobBucket)]_vars

\* the height read failed after an iteration had advanced the checkpoint and
\* merged a record, with a new block waiting to be scanned
HeightFailureNoEffectWitness ==
  /\ heightErr
  /\ epc = "sleep"
  /\ lastBlock # Nil
  /\ SetBytes(lastBlock) >= 1
  /\ SetBytes(lastBlock) < Len(ledger)
  /\ applied # {}
  /\ \E key \in AddrBytes : jobBucket[key] # Nil

\* C15: when the height read is at or below the persisted checkpoint, the
\* iteration goes from the checkpoint read straight back to sleep: no log
\* query, no write of the checkpoint, no write of a job record.
NoNewBlocksNoWrites ==
  [][(/\ epc = "view"
      /\ lastBlock # Nil
      /\ SetBytes(lastBlock) + 1 > currentBlock)
     => /\ epc' \in {"view", "sleep"}
        /\ lastBlock' = lastBlock
        /\ jobBucket' = jobBucket]_vars

\* the node reported the checkpoint's own height while a newer block
\* existed; the iteration skipped the scan
NoNewBlocksNoWritesWitness ==
  /\ epc = "sleep"
  /\ ~heightErr
  /\ lastBlock # Nil
  /\ SetBytes(lastBlock) >= 1
  /\ currentBlock = SetBytes(lastBlock)
  /\ fromBlock = currentBlock + 1
  /\ Len(ledger) > currentBlock
  /\ iterBucket = Nil
  /\ \E key \in AddrBytes : jobBucket[key] # Nil

\* C16: when the worker leaves the submission without having submitted a
\* transaction, it is back at the channel receive (not in the poll), the
\* channel, the pending transactions and the store are as they were, the
\* dropped job is still flagged; the requests handled or waiting are exactly
\* those the producers sent, each once (the worker puts none back).
SubmissionFailureDrops ==
  [][/\ (wpc = "submit" /\ wpc' # "submit" /\ submitted' = submitted) =>
          /\ wpc' = "recv"
          /\ queue' = queue
          /\ pendingTx' = pendingTx
          /\ jobBucket' = jobBucket
          /\ Flagged(jobBucket', {BytesToAddress(jobInfo.jobAddressBytes)}) # {}
     /\ Len(handled') + Len(queue') =
          Len(scanSent') + extCount' - Cardinality(extSend')]_vars

\* the submission for the first request failed; the worker went on to the
\* second request and is polling its transaction, the first job still flagged
SubmissionFailureDropsWitness ==
  /\ wpc = "poll"
  /\ Len(handled) = 2
  /\ Len(submitted) = 1
  /\ submitted[1].job = BytesToAddress(handled[2].jobAddressBytes)
  /\ Flagged(jobBucket, {BytesToAddress(handled[1].jobAddressBytes)}) # {}

\* C17: a step of the worker or of the scanner, and the confirmation of a
\* transaction, leave every job record and the checkpoint as they were; a
\* record goes away only in the event loop's JobCompleted Update, for an
\* address of a JobCompleted log of the scanned range.
OnlyEventLoopWrites ==
  [][/\ (workerVars' # workerVars \/ scanVars' # scanVars) =>
          (jobBucket' = jobBucket /\ lastBlock' = lastBlock)
     /\ \A key \in AddrBytes :
          (jobBucket[key] # Nil /\ jobBucket'[key] = Nil) =>
            /\ epc = "completed"
            /\ epc' = "put"
            /\ key \in LogAddresses(FilterLogs("JobCompleted", fromBlock, currentBlock))]_vars

\* the transaction for a job was submitted and confirmed and the job's
\* record is still in the store, while the event loop has removed another
\* record on a JobCompleted log
OnlyEventLoopWritesWitness ==
  /\ wpc = "recv"
  /\ pendingTx = {}
  /\ \E i \in 1..Len(submitted) :
       /\ jobBucket[submitted[i].job] # Nil
       /\ jobBucket[submitted[i].job][5]
  /\ \E key \in deleted : bootBucket[key] # Nil /\ jobBucket[key] = Nil

\* C18: a scan that starts with a checkpoint persisted takes the range
\* [checkpoint + 1, height read]; no block is in the range of two scans; the
\* blocks scanned so far are the whole interval from the first scanned block
\* up to the checkpoint (up to the height read, while a scan is under way).
RangesTile ==
  [][/\ (epc = "view" /\ epc' = "created" /\ lastBlock # Nil) =>
          /\ fromBlock' = SetBytes(lastBlock) + 1
          /\ covered' = covered \cup ((SetBytes(lastBlock) + 1)..currentBlock)
          /\ covered' # covered
     /\ rescanned' = {}
     /\ covered' # {} =>
          LET lo == CHOOSE b \in covered' : \A c \in covered' : b <= c
              top == IF epc' \in {"created", "funded", "completed", "put"}
                     THEN SetBytes(FromHex(currentBlockHex'))
                     ELSE SetBytes(lastBlock')
          IN /\ covered' = lo..top
             /\ epc' \in {"sleep", "view"} => lastBlock' # Nil]_vars

\* three scans, the first on a first run at height 0, then one block each
RangesTileWitness ==
  /\ epc = "sleep"
  /\ bootBucket = [key \in AddrBytes |-> Nil]
  /\ covered = 0..2
  /\ rescanned = {}
  /\ lastBlock # Nil
  /\ SetBytes(lastBlock) = 2
  /\ fromBlock = 2

\* the events of blocks from..to applied one by one in block order, each as
\* its kind's merge applies a single log
ApplyLog(bucket, l) ==
  IF l.kind = "JobCreated" THEN PutCreated(bucket, l)
  ELSE IF l.kind = "JobFunded" THEN PutFunded(bucket, l)
  ELSE DeleteCompleted(bucket, l)

RECURSIVE InLedgerOrder(_, _, _)
InLedgerOrder(bucket, from, to) ==
  IF from > to THEN bucket
  ELSE InLedgerOrder(IF from \in DOMAIN ledger THEN ApplyLog(bucket, ledger[from]) ELSE bucket,
                     from + 1, to)

\* C19: when the three queries of an iteration succeed, the job bucket after
\* the JobCompleted Update equals the bucket the iteration started on with
\* the events of the scanned range applied one by one in block order.
AgreesWithLedgerOrder ==
  [][(epc = "completed" /\ epc' = "put" /\ ~queryFailed') =>
       jobBucket' = InLedgerOrder(iterBucket, fromBlock, currentBlock)]_vars

\* C20: under fairness, the worker always comes back to the channel receive
\* (the handling of a request ends), at the receive with a request waiting it
\* takes the head of the channel (so every request, the channel being first
\* in first out with the worker its only consumer, is eventually taken), and
\* the scanner's read transaction ends.
WorkerProgress ==
  /\ []<>(wpc = "recv")
  /\ (queue # <<>> /\ wpc = "recv") ~> (wpc = "submit")
  /\ <>(spc = "done")

\* the scanner is done, three requests went through the channel of capacity
\* QueueCap, the worker has handled them all and waits for the next
WorkerProgressWitness ==
  /\ spc = "done"
  /\ queue = <<>>
  /\ wpc = "recv"
  /\ Len(handled) > QueueCap + 1
  /\ Len(submitted) >= 1
  /\ pendingTx = {}

=============================================================================
